---- MODULE Spec2Model ----
(***************************************************************************)
(* js-changelog: semantic-version tagging and changelog generation.        *)
(*                                                                         *)
(* Strings are sequences of one-character strings, so that the regular     *)
(* expression, Number(), template literals and trim() are computed, not    *)
(* assumed.  Indices into strings are JavaScript's (0-based).              *)
(***************************************************************************)
EXTENDS Integers, Sequences, FiniteSets, TLC

\* ------------------------------------------------------------------------
\* Bounds of the model
\* ------------------------------------------------------------------------

\* How many top-level calls (CLI runs or library calls of createRelease /
\* updateChangelog) one behaviour makes.
MaxCalls == 3

\* ------------------------------------------------------------------------
\* Characters
\* ------------------------------------------------------------------------

\* [a-zA-Z]
Letters ==
    {"a","b","c","d","e","f","g","h","i","j","k","l","m","n","o","p","q","r",
     "s","t","u","v","w","x","y","z",
     "A","B","C","D","E","F","G","H","I","J","K","L","M","N","O","P","Q","R",
     "S","T","U","V","W","X","Y","Z"}

DigitSeq == <<"0","1","2","3","4","5","6","7","8","9">>

Digits == {DigitSeq[i] : i \in 1..10}

\* \s and what trim() strips, among the characters the inputs are made of
WhiteSpace == {" ", "\n", "\t", "\r"}

\* what `.` does not match
LineTerminators == {"\n", "\r"}

\* The character at JavaScript index i, "" past the end.
CharAt(s, i) == IF i >= 0 /\ i < Len(s) THEN s[i + 1] ELSE ""

\* s.slice(from, to)
Slice(s, from, to) == SubSeq(s, from + 1, to)

\* Length of the longest run of characters of class cls starting at index i
\* (what a greedy quantifier consumes first).
RECURSIVE Run(_, _, _)
Run(s, i, cls) ==
    IF i < Len(s) /\ s[i + 1] \in cls THEN 1 + Run(s, i + 1, cls) ELSE 0

\* Number("0012") = 12
RECURSIVE Number(_)
Number(ds) ==
    IF ds = <<>> THEN 0
    ELSE Number(SubSeq(ds, 1, Len(ds) - 1)) * 10
         + ((CHOOSE i \in 1..10 : DigitSeq[i] = ds[Len(ds)]) - 1)

\* `${n}` for a non-negative integer n
RECURSIVE NumToString(_)
NumToString(n) ==
    IF n < 10 THEN <<DigitSeq[n + 1]>>
    ELSE NumToString(n \div 10) \o <<DigitSeq[(n % 10) + 1]>>

\* String.prototype.trim
RECURSIVE TrimStart(_)
TrimStart(s) ==
    IF s # <<>> /\ s[1] \in WhiteSpace THEN TrimStart(Tail(s)) ELSE s

RECURSIVE TrimEnd(_)
TrimEnd(s) ==
    IF s # <<>> /\ s[Len(s)] \in WhiteSpace
    THEN TrimEnd(SubSeq(s, 1, Len(s) - 1)) ELSE s

Trim(s) == TrimEnd(TrimStart(s))

\* ------------------------------------------------------------------------
\* SEMVER_TAG_PATTERN =
\*   /(?<description>[a-zA-Z]*)(?<major>\d+)\.(?<minor>\d+).(?<patch>\d+)\s*/g
\* ------------------------------------------------------------------------

\* The ways the pattern up to and including the unescaped `.` can match at
\* index i: <<l, a, b>> are the lengths taken by [a-zA-Z]*, the first \d+
\* and the second \d+.  The first dot is literal; the second `.` is any
\* character but a line terminator; one more digit must follow it.
SemverCandidates(s, i) ==
    UNION { UNION { { <<l, a, b>> :
                        b \in { b \in 1..Run(s, i + l + a + 1, Digits) :
                                  /\ CharAt(s, i + l + a + 1 + b) # ""
                                  /\ CharAt(s, i + l + a + 1 + b) \notin LineTerminators
                                  /\ CharAt(s, i + l + a + 2 + b) \in Digits } } :
                    a \in { a \in 1..Run(s, i + l, Digits) :
                              CharAt(s, i + l + a) = "." } } :
            l \in 0..Run(s, i, Letters) }

\* Backtracking order: every quantifier is greedy, so the first candidate
\* found is the one with the longest l, then the longest a, then the longest b.
SemverFirst(cands) ==
    CHOOSE m \in cands :
        \A n \in cands :
            \/ m[1] > n[1]
            \/ m[1] = n[1] /\ m[2] > n[2]
            \/ m[1] = n[1] /\ m[2] = n[2] /\ m[3] >= n[3]

NoMatch == [ok |-> FALSE, description |-> <<>>, major |-> <<>>,
            minor |-> <<>>, patch |-> <<>>, index |-> 0, lastIndex |-> 0]

\* RegExp.prototype.exec on the global pattern: the search starts at
\* lastIndex, the leftmost match wins, lastIndex becomes the end of the match
\* (0 when there is none).
SemverExec(s, lastIndex) ==
    LET starts == { i \in lastIndex..Len(s) : SemverCandidates(s, i) # {} }
    IN  IF starts = {} THEN NoMatch
        ELSE LET i  == CHOOSE j \in starts : \A k \in starts : j <= k
                 m  == SemverFirst(SemverCandidates(s, i))
                 p1 == i + m[1]
                 p2 == p1 + m[2] + 1
                 p3 == p2 + m[3] + 1
                 c  == Run(s, p3, Digits)
                 e  == p3 + c + Run(s, p3 + c, WhiteSpace)
             IN  [ok |-> TRUE,
                  description |-> Slice(s, i, p1),
                  major |-> Slice(s, p1, p1 + m[2]),
                  minor |-> Slice(s, p2, p2 + m[3]),
                  patch |-> Slice(s, p3, p3 + c),
                  index |-> i, lastIndex |-> e]


\* ------------------------------------------------------------------------
\* Constants of the program
\* ------------------------------------------------------------------------

\* Mutant: a zero version with two components.
SEMVER_ZERO_TwoParts == <<"0", ".", "0">>

SEMVER_ZERO == <<"0", ".", "0", ".", "0">>

RELEASE_TYPES == {"major", "minor", "patch"}

\* What the command line stores in args.action for each flag (store_const).
\* A string constant is modelled as a record with isObject = FALSE: reading
\* .name from it yields undefined.
NoAction == [isObject |-> FALSE, str |-> "", name |-> "undefined", release |-> "undefined"]

ReleaseAction(release) ==
    [isObject |-> TRUE, str |-> "", name |-> "createRelease", release |-> release]

ChangelogAction ==
    [isObject |-> TRUE, str |-> "", name |-> "updateChangelog", release |-> "undefined"]

getParser(flag) ==
    CASE flag = "--current"   -> [NoAction EXCEPT !.str = "currentRelease"]
      [] flag = "--major"     -> ReleaseAction("major")
      [] flag = "--minor"     -> ReleaseAction("minor")
      [] flag = "--patch"     -> ReleaseAction("patch")
      [] flag = "--changelog" -> ChangelogAction
      [] OTHER                -> NoAction

Flags == {"--current", "--major", "--minor", "--patch", "--changelog", ""}

\* processArgs: --current switches verbose on.
processArgs(action) == ~action.isObject /\ action.str = "currentRelease"

\* `${args.action.name}`
ActionName(action) == IF action.isObject THEN action.name ELSE "undefined"

\* Mutant: every args.action is taken for an action to dispatch.
Truthy_Always(action) == TRUE

\* args.action ? ... : parser.print_help()
Truthy(action) == action.isObject \/ action.str # ""

\* module.exports of index.js
ModuleExports == {"updateChangelog", "createRelease"}

\* Mutant: the commit is tagged before the manifest is rewritten.
CreateReleaseOrder_TagFirst ==
    <<"computeNewReleaseTag", "tagCurrentCommit",
      "updatePackageJsonVersion", "updateChangelog">>

\* The steps of createRelease, in program order.
CreateReleaseOrder ==
    <<"computeNewReleaseTag", "updatePackageJsonVersion",
      "tagCurrentCommit", "updateChangelog">>

\* The statement a step of createRelease begins with.
StepEntry(step) ==
    CASE step = "computeNewReleaseTag"     -> "isGitCommandAvailable"
      [] step = "updatePackageJsonVersion" -> "updatePackageJsonVersion"
      [] step = "tagCurrentCommit"         -> "tagCurrentCommit"
      [] step = "updateChangelog"          -> "updateChangelog"
      [] OTHER                             -> "done"

\* The step that follows `step` in createRelease ("return" after the last).
StepAfter(step) ==
    LET i == CHOOSE j \in 1..Len(CreateReleaseOrder) : CreateReleaseOrder[j] = step
    IN  IF i < Len(CreateReleaseOrder) THEN CreateReleaseOrder[i + 1] ELSE "return"

\* ------------------------------------------------------------------------
\* parseVersionTag and the template literals of computeNewReleaseTag
\* ------------------------------------------------------------------------

NoVersion == [description |-> <<>>, major |-> 0, minor |-> 0, patch |-> 0]

\* The groups of a match, converted as parseVersionTag converts them.
parseVersionTag(m) ==
    [description |-> m.description, major |-> Number(m.major),
     minor |-> Number(m.minor), patch |-> Number(m.patch)]

Dot == <<".">>

\* Mutant: the template of a patch release lacks its second dot.
newVersion_MissingDot(cur, release) ==
    CASE release = "major" ->
            cur.description \o NumToString(cur.major + 1) \o Dot
                \o <<"0">> \o Dot \o <<"0">>
      [] release = "minor" ->
            cur.description \o NumToString(cur.major) \o Dot
                \o NumToString(cur.minor + 1) \o Dot \o <<"0">>
      [] release = "patch" ->
            cur.description \o NumToString(cur.major) \o Dot
                \o NumToString(cur.minor) \o NumToString(cur.patch + 1)

\* Mutant: a minor release that keeps the patch number.
newVersion_KeepPatch(cur, release) ==
    CASE release = "major" ->
            cur.description \o NumToString(cur.major + 1) \o Dot
                \o <<"0">> \o Dot \o <<"0">>
      [] release = "minor" ->
            cur.description \o NumToString(cur.major) \o Dot
                \o NumToString(cur.minor + 1) \o Dot \o NumToString(cur.patch)
      [] release = "patch" ->
            cur.description \o NumToString(cur.major) \o Dot
                \o NumToString(cur.minor) \o Dot
                \o NumToString(cur.patch + 1)

\* The switch of computeNewReleaseTag (release is one of RELEASE_TYPES).
newVersion(cur, release) ==
    CASE release = "major" ->
            cur.description \o NumToString(cur.major + 1) \o Dot
                \o <<"0">> \o Dot \o <<"0">>
      [] release = "minor" ->
            cur.description \o NumToString(cur.major) \o Dot
                \o NumToString(cur.minor + 1) \o Dot \o <<"0">>
      [] release = "patch" ->
            cur.description \o NumToString(cur.major) \o Dot
                \o NumToString(cur.minor) \o Dot
                \o NumToString(cur.patch + 1)

\* String(null) is "null"
NullString == <<"n", "u", "l", "l">>

\* ------------------------------------------------------------------------
\* The manifest file (package.json)
\* ------------------------------------------------------------------------

VersionKey == "version"

\* JSON.parse of an object text: one property per key, in order of first
\* appearance, with the value of the key's last appearance.
RECURSIVE JSONParse(_)
JSONParse(pairs) ==
    IF pairs = <<>> THEN <<>>
    ELSE LET front == JSONParse(SubSeq(pairs, 1, Len(pairs) - 1))
             last  == pairs[Len(pairs)]
         IN  IF \E i \in 1..Len(front) : front[i].k = last.k
             THEN [i \in 1..Len(front) |->
                      IF front[i].k = last.k THEN last ELSE front[i]]
             ELSE Append(front, last)

\* Mutant: the manifest object is replaced by one that holds only the version.
SetVersion_Replace(obj, value) == << [k |-> "version", v |-> value] >>

\* PACKAGE_JSON_DATA.version = value
SetVersion(obj, value) ==
    IF \E i \in 1..Len(obj) : obj[i].k = VersionKey
    THEN [i \in 1..Len(obj) |->
             IF obj[i].k = VersionKey THEN [k |-> VersionKey, v |-> value]
             ELSE obj[i]]
    ELSE Append(obj, [k |-> VersionKey, v |-> value])

\* JSON.stringify(obj, undefined, 4): the properties in the object's order.
JSONStringify(obj) == obj

\* The value of key in an object (<<>> when absent) and its keys.
Get(obj, key) ==
    IF \E i \in 1..Len(obj) : obj[i].k = key
    THEN obj[CHOOSE i \in 1..Len(obj) : obj[i].k = key].v
    ELSE <<>>

Keys(obj) == {obj[i].k : i \in 1..Len(obj)}


\* ------------------------------------------------------------------------
\* State
\* ------------------------------------------------------------------------

VARIABLES
    tags,                 \* the repository's tags, oldest first
    manifest,             \* the manifest file: [state, pairs]
    lastIndex,            \* SEMVER_TAG_PATTERN.lastIndex of the running process
    calls,                \* top-level calls made so far
    pc,                   \* the statement the running call is at
    op,                   \* the exported function the running call entered
    args,                 \* its CommandLineArgs: [action, verbose, cli]
    currentReleaseStr,    \* currentRelease's string (or a direct call's argument)
    current,              \* the parsed version
    newTag,               \* computeNewReleaseTag's result
    versionTagStr,        \* updateChangelog's trimmed version string
    error,                \* the error the call rejected with
    steps,                \* the steps of createRelease entered so far
    cmds,                 \* external commands and file operations issued
    stdout,               \* console.log lines of the call
    tagsBefore,           \* tags when the call began
    manifestBefore,       \* manifest when the call began
    staged,               \* the manifest is staged in the index
    amended,              \* HEAD was rewritten by the call
    running,              \* external commands started and not yet completed
    previous,             \* how the call before this one ended, in this process
    releasesOnly          \* every tag was created by a release that resolved
                          \* the latest tag

env == <<tags, manifest>>

locals == <<currentReleaseStr, current, newTag, versionTagStr>>

vars == <<tags, manifest, lastIndex, calls, pc, op, args, currentReleaseStr,
          current, newTag, versionTagStr, error, steps, cmds, stdout,
          tagsBefore, manifestBefore, staged, amended, running,
          previous, releasesOnly>>

history == <<previous, releasesOnly>>

\* ------------------------------------------------------------------------
\* The inputs the model draws from
\* ------------------------------------------------------------------------

InitialTags == { <<>>, << <<"v", "1", ".", "4", ".", "2">> >> }

Chars(str) ==
    CASE str = "pkg"   -> <<"p", "k", "g">>
      [] str = "old"   -> <<"o", "l", "d">>
      [] str = "1.4.2" -> <<"1", ".", "4", ".", "2">>
      [] str = "MIT"   -> <<"m", "i", "t">>

ManifestFiles ==
    { [state |-> "missing", pairs |-> <<>>],
      [state |-> "invalid", pairs |-> <<>>],
      [state |-> "object",
       pairs |-> << [k |-> "name", v |-> Chars("old")],
                    [k |-> "version", v |-> Chars("1.4.2")],
                    [k |-> "name", v |-> Chars("pkg")],
                    [k |-> "license", v |-> Chars("MIT")] >>],
      [state |-> "object",
       pairs |-> << [k |-> "name", v |-> Chars("pkg")] >>] }

\* Release kinds a caller of the exported createRelease may pass.
CallerReleases == RELEASE_TYPES \cup {"hotfix"}

\* ------------------------------------------------------------------------
\* Errors
\* ------------------------------------------------------------------------

NoError == [name |-> "", input |-> <<>>, wraps |-> <<>>]

Err(name, input) == [name |-> name, input |-> input, wraps |-> <<>>]

Wrap(e, by, arg) == [e EXCEPT !.wraps = Append(@, [by |-> by, arg |-> arg])]

Cmd(cmd, arg, ok) == [cmd |-> cmd, arg |-> arg, ok |-> ok]

Line(text, arg) == [text |-> text, arg |-> arg]

CurStep == IF steps = <<>> THEN "" ELSE steps[Len(steps)].step

Mark(st) ==
    IF steps = <<>> THEN steps ELSE [steps EXCEPT ![Len(steps)].st = st]

\* Mutant: createRelease rethrows the error as it caught it.
Caught_Rethrow(e, cur) ==
    IF op = "createRelease" /\ CurStep = "computeNewReleaseTag"
    THEN Wrap(e, "computeNewReleaseTag", cur) ELSE e

\* The catch blocks an error thrown at the current statement passes through:
\* computeNewReleaseTag's (support.js:148) and createRelease's (index.js:364).
\* cur is `${current}` at the time of the throw.
Caught(e, cur) ==
    IF op = "createRelease"
    THEN Wrap(IF CurStep = "computeNewReleaseTag"
              THEN Wrap(e, "computeNewReleaseTag", cur) ELSE e,
              "createRelease", args.action.release)
    ELSE e

Raise(e, cur) ==
    /\ error' = Caught(e, cur)
    /\ pc' = "failed"
    /\ steps' = Mark("failed")

\* The running step of createRelease returned: enter the next one.
Proceed ==
    IF op = "createRelease"
    THEN LET next == StepAfter(CurStep)
         IN  IF next = "return"
             THEN pc' = "done" /\ steps' = Mark("ok")
             ELSE /\ pc' = StepEntry(next)
                  /\ steps' = Append(Mark("ok"), [step |-> next, st |-> "started"])
    ELSE pc' = "done" /\ steps' = steps

Idle == pc \in {"idle", "done", "failed", "crashed", "help"}

\* The statements that run an external command, and the command of each.
CommandStatements ==
    {"isGitCommandAvailable", "getLastTaggedCommitSHA", "getAssociatedTag",
     "gitAdd", "gitCommitAmend", "gitTag", "autoChangelog"}

CommandAt(stmt) ==
    CASE stmt = "isGitCommandAvailable"  -> "git --version"
      [] stmt = "getLastTaggedCommitSHA" -> "git rev-list"
      [] stmt = "getAssociatedTag"       -> "git describe"
      [] stmt = "gitAdd"                 -> "git add"
      [] stmt = "gitCommitAmend"         -> "git commit --amend"
      [] stmt = "gitTag"                 -> "git tag"
      [] stmt = "autoChangelog"          -> "auto-changelog"

\* `await CLI_COMMANDS.execute(...)` resumes: the command it started has
\* completed, successfully or not.
Await(c) ==
    /\ running = <<c>>
    /\ running' = <<>>

\* ------------------------------------------------------------------------
\* Init
\* ------------------------------------------------------------------------

NoString == [isNull |-> FALSE, str |-> <<>>]

NoArgs == [action |-> NoAction, verbose |-> FALSE, cli |-> FALSE]

NoPrevious == [op |-> "none", error |-> ""]

\* How the call that has just ended ended.
Outcome == IF pc = "idle" THEN previous ELSE [op |-> op, error |-> error.name]

Init ==
    /\ tags \in InitialTags
    /\ manifest \in ManifestFiles
    /\ lastIndex = 0
    /\ calls = 0
    /\ pc = "idle"
    /\ op = "none"
    /\ args = NoArgs
    /\ currentReleaseStr = NoString
    /\ current = NoVersion
    /\ newTag = <<>>
    /\ versionTagStr = <<>>
    /\ error = NoError
    /\ steps = <<>>
    /\ cmds = <<>>
    /\ stdout = <<>>
    /\ tagsBefore = tags
    /\ manifestBefore = manifest
    /\ staged = FALSE
    /\ amended = FALSE
    /\ running = <<>>
    /\ previous = NoPrevious
    /\ releasesOnly = (tags = <<>>)

\* parser.print_help() writes the usage text to the standard output.
PrintHelp == << Line("usage", <<>>) >>

\* A call begins: nothing of the previous call is kept but the process's
\* pattern object and the repository.
Enter(name, a, str, err) ==
    /\ calls' = calls + 1
    /\ op' = name
    /\ args' = a
    /\ currentReleaseStr' = str
    /\ current' = NoVersion
    /\ newTag' = <<>>
    /\ versionTagStr' = <<>>
    /\ error' = err
    /\ cmds' = <<>>
    /\ stdout' = IF name = "print_help" THEN PrintHelp ELSE <<>>
    /\ tagsBefore' = tags
    /\ manifestBefore' = manifest
    /\ staged' = FALSE
    /\ amended' = FALSE
    /\ running' = <<>>
    /\ previous' = IF a.cli THEN NoPrevious ELSE Outcome
    /\ UNCHANGED <<env, releasesOnly>>

\* createRelease(args) and updateChangelog(args) as entered by a caller.
EnterExport(name, a) ==
    /\ Enter(name, a, NoString, NoError)
    /\ IF name = "createRelease"
       THEN /\ steps' = << [step |-> CreateReleaseOrder[1], st |-> "started"] >>
            /\ pc' = StepEntry(CreateReleaseOrder[1])
       ELSE /\ steps' = <<>>
            /\ pc' = "updateChangelog"


\* ------------------------------------------------------------------------
\* Entry points
\* ------------------------------------------------------------------------

\* `module.exports[undefined](args)` throws before any function is entered.
DispatchError == Err("TypeError", <<>>)

\* index.js run as a program: a fresh process parses the flag, processArgs
\* adjusts the arguments, and the action is looked up by name in
\* module.exports and called.
Main(flag) ==
    LET action == getParser(flag)
        a      == [action |-> action, verbose |-> processArgs(action), cli |-> TRUE]
    IN  /\ Idle
        /\ calls < MaxCalls
        /\ lastIndex' = 0
        /\ IF ~Truthy(action)
           THEN /\ Enter("print_help", a, NoString, NoError)
                /\ pc' = "help"
                /\ steps' = <<>>
           ELSE IF ActionName(action) \in ModuleExports
           THEN EnterExport(ActionName(action), a)
           ELSE /\ Enter("dispatch", a, NoString, DispatchError)
                /\ pc' = "crashed"
                /\ steps' = <<>>

\* createRelease called by code that required index.js, in the same process
\* as the calls before it.
CallCreateRelease(release) ==
    /\ Idle
    /\ calls < MaxCalls
    /\ EnterExport("createRelease",
                   [action |-> ReleaseAction(release), verbose |-> FALSE, cli |-> FALSE])
    /\ UNCHANGED lastIndex

\* updateChangelog(args) called the same way.
CallUpdateChangelog(verbose) ==
    /\ Idle
    /\ calls < MaxCalls
    /\ EnterExport("updateChangelog",
                   [action |-> ChangelogAction, verbose |-> verbose, cli |-> FALSE])
    /\ UNCHANGED lastIndex

\* Between two calls the user repairs a manifest that is missing or does
\* not parse.  What is recorded of the call that ended is cleared.
FixManifest ==
    /\ Idle
    /\ manifest.state \in {"missing", "invalid"}
    /\ \E m \in {f \in ManifestFiles : f.state = "object"} :
         /\ manifest' = m
         /\ manifestBefore' = m
    /\ previous' = Outcome
    /\ pc' = "idle"
    /\ op' = "none"
    /\ args' = NoArgs
    /\ currentReleaseStr' = NoString
    /\ current' = NoVersion
    /\ newTag' = <<>>
    /\ versionTagStr' = <<>>
    /\ error' = NoError
    /\ steps' = <<>>
    /\ cmds' = <<>>
    /\ stdout' = <<>>
    /\ tagsBefore' = tags
    /\ staged' = FALSE
    /\ amended' = FALSE
    /\ running' = <<>>
    /\ UNCHANGED <<tags, lastIndex, calls, releasesOnly>>

\* ------------------------------------------------------------------------
\* Command runner
\* ------------------------------------------------------------------------

\* Mutant: a command is started whether or not one is running.
Execute_Unawaited ==
    /\ pc \in CommandStatements
    /\ UNCHANGED history
    /\ running' = Append(running, CommandAt(pc))
    /\ UNCHANGED <<env, lastIndex, calls, pc, op, args, locals, error, steps,
                   cmds, stdout, tagsBefore, manifestBefore, staged, amended>>

\* cli_commands.js:16-19: the statement the call is at starts its command;
\* the caller awaits it and starts nothing until it has completed.
Execute ==
    /\ pc \in CommandStatements
    /\ UNCHANGED history
    /\ running = <<>>
    /\ running' = Append(running, CommandAt(pc))
    /\ UNCHANGED <<env, lastIndex, calls, pc, op, args, locals, error, steps,
                   cmds, stdout, tagsBefore, manifestBefore, staged, amended>>

\* ------------------------------------------------------------------------
\* currentRelease
\* ------------------------------------------------------------------------

\* Mutant: the outcome of the availability check is ignored.
IsGitCommandAvailable_Ignore ==
    /\ pc = "isGitCommandAvailable"
    /\ UNCHANGED history
    /\ Await("git --version")
    /\ \E ok \in BOOLEAN :
         cmds' = Append(cmds, Cmd("git --version", <<>>, ok))
    /\ pc' = "getLastTaggedCommitSHA"
    /\ UNCHANGED <<env, lastIndex, calls, op, args, locals, stdout, error, steps,
                   tagsBefore, manifestBefore, staged, amended>>

\* support.js:24-31, called at :104
IsGitCommandAvailable ==
    /\ pc = "isGitCommandAvailable"
    /\ UNCHANGED history
    /\ Await("git --version")
    /\ \E ok \in BOOLEAN :
         /\ cmds' = Append(cmds, Cmd("git --version", <<>>, ok))
         /\ IF ok
            THEN pc' = "getLastTaggedCommitSHA" /\ UNCHANGED <<error, steps>>
            ELSE Raise(Err("GitUnavailable", <<>>), "\"undefined\"")
    /\ UNCHANGED <<env, lastIndex, calls, op, args, locals, stdout,
                   tagsBefore, manifestBefore, staged, amended>>

\* support.js:51-57, and the choice at :109.  The query fails or prints
\* nothing when there is no tag; a failure is absorbed as null.
GetLastTaggedCommitSHA ==
    /\ pc = "getLastTaggedCommitSHA"
    /\ UNCHANGED history
    /\ Await("git rev-list")
    /\ \E ok \in BOOLEAN :
         /\ cmds' = Append(cmds, Cmd("git rev-list", <<>>, ok))
         /\ IF ok /\ tags # <<>>
            THEN pc' = "getAssociatedTag" /\ UNCHANGED currentReleaseStr
            ELSE /\ pc' = "currentReleaseReturn"
                 /\ currentReleaseStr' = [isNull |-> FALSE, str |-> SEMVER_ZERO]
    /\ UNCHANGED <<env, lastIndex, calls, op, args, current, newTag, versionTagStr,
                   error, steps, stdout, tagsBefore, manifestBefore, staged, amended>>

\* Mutant: the query resolves the oldest tag.
DescribeOutput_Oldest == tags[1] \o <<"\n">>

\* What `git describe --tags <sha>` prints for the last tagged commit.
DescribeOutput == tags[Len(tags)] \o <<"\n">>

\* support.js:39-45: a failure is absorbed as null.
GetAssociatedTag ==
    /\ pc = "getAssociatedTag"
    /\ UNCHANGED history
    /\ Await("git describe")
    /\ \E ok \in BOOLEAN :
         /\ cmds' = Append(cmds, Cmd("git describe", <<>>, ok))
         /\ currentReleaseStr' =
              IF ok THEN [isNull |-> FALSE, str |-> DescribeOutput]
              ELSE [isNull |-> TRUE, str |-> <<>>]
    /\ pc' = "currentReleaseReturn"
    /\ UNCHANGED <<env, lastIndex, calls, op, args, current, newTag, versionTagStr,
                   error, steps, stdout, tagsBefore, manifestBefore, staged, amended>>

\* `${x}` of a string or null
StringOf(x) == IF x.isNull THEN NullString ELSE x.str

\* support.js:111-118.  With parsed = true (computeNewReleaseTag) the string
\* goes to parseVersionTag; otherwise it is logged when verbose and returned
\* to updateChangelog, which trims it (index.js:347).
CurrentReleaseReturn ==
    /\ pc = "currentReleaseReturn"
    /\ UNCHANGED history
    /\ UNCHANGED running
    /\ IF op = "createRelease"
       THEN /\ pc' = "parseVersionTag"
            /\ UNCHANGED <<versionTagStr, stdout, error, steps>>
       ELSE /\ stdout' = IF args.verbose
                         THEN Append(stdout, Line("Current release is",
                                                  StringOf(currentReleaseStr)))
                         ELSE stdout
            /\ IF currentReleaseStr.isNull
               THEN /\ Raise(Err("TypeError", <<>>), "")
                    /\ UNCHANGED versionTagStr
               ELSE /\ versionTagStr' = Trim(currentReleaseStr.str)
                    /\ pc' = "autoChangelog"
                    /\ UNCHANGED <<error, steps>>
    /\ UNCHANGED <<env, lastIndex, calls, op, args, currentReleaseStr, current,
                   newTag, cmds, tagsBefore, manifestBefore, staged, amended>>


\* ------------------------------------------------------------------------
\* parseVersionTag, computeNewReleaseTag
\* ------------------------------------------------------------------------

\* `${description}${major}.${minor}.${patch}`
Format(p, a, b, c) ==
    p \o NumToString(a) \o Dot \o NumToString(b) \o Dot \o NumToString(c)

SamplePrefixes == { <<>>, <<"v">> }

SampleNumbers == {0, 12}

\* Strings a caller of the exported parseVersionTag passes.
ParseInputs ==
    { Format(p, a, b, c) : p \in SamplePrefixes, a \in SampleNumbers,
                           b \in SampleNumbers, c \in SampleNumbers }
    \cup
    { <<>>,
      <<"n", "o", "t", "-", "a", "-", "v", "e", "r", "s", "i", "o", "n">>,
      <<"1", ".", "2">>,
      <<"1", ".", "2", "x", "3">>,
      <<"1", ".", "2", "3", "4">>,
      <<"v", "1", ".", "0", "2", ".", "3">>,
      <<"v", "1", ".", "4", ".", "2", "\n">>,
      <<"-", "1", ".", "2", ".", "3">>,
      <<"v", "1", ".", "2", ".", "3", "-", "r", "c">> }

\* support.parseVersionTag(versionTag) called by code that required
\* support.js, in the same process as the calls before it.
CallParseVersionTag(s) ==
    /\ Idle
    /\ calls < MaxCalls
    /\ Enter("parseVersionTag",
             [action |-> NoAction, verbose |-> FALSE, cli |-> FALSE],
             [isNull |-> FALSE, str |-> s], NoError)
    /\ steps' = <<>>
    /\ pc' = "parseVersionTag"
    /\ UNCHANGED lastIndex

\* support.js:67-77 and, inside computeNewReleaseTag, the switch at :133-147.
\* exec starts at the pattern's lastIndex and leaves it at the end of the
\* match, or at 0 when nothing matches.
ParseVersionTag ==
    /\ pc = "parseVersionTag"
    /\ UNCHANGED history
    /\ UNCHANGED running
    /\ LET s == StringOf(currentReleaseStr)
           m == SemverExec(s, lastIndex)
       IN  /\ lastIndex' = m.lastIndex
           /\ IF ~m.ok
              THEN /\ Raise(Err("ParseError", s), "\"undefined\"")
                   /\ UNCHANGED <<current, newTag>>
              ELSE /\ current' = parseVersionTag(m)
                   /\ IF op # "createRelease"
                      THEN /\ pc' = "done"
                           /\ UNCHANGED <<newTag, error, steps>>
                      ELSE IF args.action.release \in RELEASE_TYPES
                      THEN /\ newTag' = newVersion(current', args.action.release)
                           /\ Proceed
                           /\ UNCHANGED error
                      ELSE /\ Raise(Err("InvalidReleaseType", <<>>), "[object Object]")
                           /\ UNCHANGED newTag
    /\ UNCHANGED <<env, calls, op, args, currentReleaseStr, versionTagStr, cmds,
                   stdout, tagsBefore, manifestBefore, staged, amended>>

\* ------------------------------------------------------------------------
\* updatePackageJsonVersion
\* ------------------------------------------------------------------------

\* Mutant: the version is never assigned.
NewManifestText_NoSet(pairs, newRel) == JSONStringify(JSONParse(pairs))

\* The text written back for a manifest text that parses (index.js:379-381).
NewManifestText(pairs, newRel) ==
    JSONStringify(SetVersion(JSONParse(pairs), Trim(newRel)))

\* index.js:379-381: read, parse, set the version, write back.
UpdatePackageJsonVersion ==
    /\ pc = "updatePackageJsonVersion"
    /\ UNCHANGED history
    /\ UNCHANGED running
    /\ IF manifest.state = "missing"
       THEN /\ cmds' = Append(cmds, Cmd("readFileSync", <<>>, FALSE))
            /\ Raise(Err("ENOENT", <<>>), "")
            /\ UNCHANGED manifest
       ELSE IF manifest.state = "invalid"
       THEN /\ cmds' = Append(cmds, Cmd("readFileSync", <<>>, TRUE))
            /\ Raise(Err("SyntaxError", <<>>), "")
            /\ UNCHANGED manifest
       ELSE /\ manifest' = [manifest EXCEPT !.pairs = NewManifestText(@, newTag)]
            /\ cmds' = cmds \o << Cmd("readFileSync", <<>>, TRUE),
                                  Cmd("writeFileSync", Trim(newTag), TRUE) >>
            /\ pc' = "gitAdd"
            /\ UNCHANGED <<error, steps>>
    /\ UNCHANGED <<tags, lastIndex, calls, op, args, locals, stdout,
                   tagsBefore, manifestBefore, staged, amended>>

\* Mutant: a failure of git add is caught and ignored.
GitAdd_Ignore ==
    /\ pc = "gitAdd"
    /\ UNCHANGED history
    /\ Await("git add")
    /\ \E ok \in BOOLEAN :
         /\ cmds' = Append(cmds, Cmd("git add", <<>>, ok))
         /\ staged' = ok
    /\ pc' = "gitCommitAmend"
    /\ UNCHANGED <<env, lastIndex, calls, op, args, locals, stdout, error, steps,
                   tagsBefore, manifestBefore, amended>>

\* index.js:382
GitAdd ==
    /\ pc = "gitAdd"
    /\ UNCHANGED history
    /\ Await("git add")
    /\ \E ok \in BOOLEAN :
         /\ cmds' = Append(cmds, Cmd("git add", <<>>, ok))
         /\ IF ok
            THEN staged' = TRUE /\ pc' = "gitCommitAmend" /\ UNCHANGED <<error, steps>>
            ELSE Raise(Err("CommandError", <<>>), "") /\ UNCHANGED staged
    /\ UNCHANGED <<env, lastIndex, calls, op, args, locals, stdout,
                   tagsBefore, manifestBefore, amended>>

\* Mutant: the manifest is committed as a new commit.
GitCommitAmend_NewCommit ==
    /\ pc = "gitCommitAmend"
    /\ UNCHANGED history
    /\ Await("git commit --amend")
    /\ \E ok \in BOOLEAN :
         /\ cmds' = Append(cmds, Cmd("git commit", <<>>, ok))
         /\ IF ok
            THEN /\ staged' = FALSE
                 /\ Proceed
                 /\ UNCHANGED error
            ELSE Raise(Err("CommandError", <<>>), "") /\ UNCHANGED staged
    /\ UNCHANGED <<env, lastIndex, calls, op, args, locals, stdout,
                   tagsBefore, manifestBefore, amended>>

\* index.js:383
GitCommitAmend ==
    /\ pc = "gitCommitAmend"
    /\ UNCHANGED history
    /\ Await("git commit --amend")
    /\ \E ok \in BOOLEAN :
         /\ cmds' = Append(cmds, Cmd("git commit --amend", <<>>, ok))
         /\ IF ok
            THEN /\ staged' = FALSE /\ amended' = TRUE
                 /\ Proceed
                 /\ UNCHANGED error
            ELSE Raise(Err("CommandError", <<>>), "") /\ UNCHANGED <<staged, amended>>
    /\ UNCHANGED <<env, lastIndex, calls, op, args, locals, stdout,
                   tagsBefore, manifestBefore>>

\* ------------------------------------------------------------------------
\* tagCurrentCommit
\* ------------------------------------------------------------------------

\* tag.match(SEMVER_TAG_PATTERN): with a global pattern, match searches from
\* index 0 and is null exactly when there is no match at all.
MatchesPattern(tag) == SemverExec(tag, 0).ok

\* Strings a caller of the exported tagCurrentCommit passes: a tag, a tag
\* with a suffix, and a name that is no version.
TagInputs ==
    { <<"v", "2", ".", "0", ".", "0">>,
      <<"v", "1", ".", "2", ".", "3", "-", "r", "c">>,
      <<"l", "a", "t", "e", "s", "t">> }

\* support.tagCurrentCommit(tag) called by code that required support.js,
\* in the same process as the calls before it.
CallTagCurrentCommit(tag) ==
    /\ Idle
    /\ calls < MaxCalls
    /\ Enter("tagCurrentCommit",
             [action |-> NoAction, verbose |-> FALSE, cli |-> FALSE],
             [isNull |-> FALSE, str |-> tag], NoError)
    /\ steps' = <<>>
    /\ pc' = "tagCurrentCommit"
    /\ UNCHANGED lastIndex

\* The parameter `tag`: createRelease passes newTag.
TagArgument == IF op = "tagCurrentCommit" THEN currentReleaseStr.str ELSE newTag

\* support.js:87-89: the format check.  match leaves lastIndex at 0.
TagCurrentCommit ==
    /\ pc = "tagCurrentCommit"
    /\ UNCHANGED history
    /\ UNCHANGED running
    /\ lastIndex' = 0
    /\ IF ~MatchesPattern(TagArgument)
       THEN Raise(Err("ValidationError", TagArgument), "")
       ELSE pc' = "gitTag" /\ UNCHANGED <<error, steps>>
    /\ UNCHANGED <<env, calls, op, args, locals, cmds, stdout,
                   tagsBefore, manifestBefore, staged, amended>>

\* The tag being created is that of a createRelease whose current release
\* was the repository's latest tag (the zero version when it has none): the
\* two queries of currentRelease succeeded.
ResolvedLatest ==
    /\ op = "createRelease"
    /\ \/ tagsBefore = <<>>
       \/ /\ \E i \in 1..Len(cmds) : cmds[i].cmd = "git rev-list" /\ cmds[i].ok
          /\ \E i \in 1..Len(cmds) : cmds[i].cmd = "git describe" /\ cmds[i].ok

\* support.js:90.  git refuses a tag name that exists.
GitTag ==
    /\ pc = "gitTag"
    /\ UNCHANGED previous
    /\ Await("git tag")
    /\ \E ok \in BOOLEAN :
         LET created == ok /\ \A i \in 1..Len(tags) : tags[i] # TagArgument
         IN  /\ cmds' = Append(cmds, Cmd("git tag", TagArgument, created))
             /\ IF created
                THEN /\ tags' = Append(tags, TagArgument)
                     /\ releasesOnly' = (releasesOnly /\ ResolvedLatest)
                     /\ Proceed
                     /\ UNCHANGED error
                ELSE /\ Raise(Err("CommandError", <<>>), "")
                     /\ UNCHANGED <<tags, releasesOnly>>
    /\ UNCHANGED <<manifest, lastIndex, calls, op, args, locals, stdout,
                   tagsBefore, manifestBefore, staged, amended>>

\* ------------------------------------------------------------------------
\* updateChangelog
\* ------------------------------------------------------------------------

\* Mutant: the changelog-only action records the version in the manifest
\* before resolving it.
UpdateChangelog_Persist ==
    /\ pc = "updateChangelog"
    /\ UNCHANGED history
    /\ UNCHANGED running
    /\ IF op = "createRelease" /\ newTag # <<>>
       THEN /\ versionTagStr' = Trim(newTag)
            /\ pc' = "autoChangelog"
       ELSE /\ pc' = "updatePackageJsonVersion"
            /\ UNCHANGED versionTagStr
    /\ UNCHANGED <<env, lastIndex, calls, op, args, currentReleaseStr, current,
                   newTag, error, steps, cmds, stdout, tagsBefore,
                   manifestBefore, staged, amended>>

\* index.js:344-347: without a version (the changelog-only action) the
\* current release is resolved first; with one (createRelease) it is trimmed.
UpdateChangelog ==
    /\ pc = "updateChangelog"
    /\ UNCHANGED history
    /\ UNCHANGED running
    /\ IF op = "createRelease" /\ newTag # <<>>
       THEN /\ versionTagStr' = Trim(newTag)
            /\ pc' = "autoChangelog"
       ELSE /\ pc' = "isGitCommandAvailable"
            /\ UNCHANGED versionTagStr
    /\ UNCHANGED <<env, lastIndex, calls, op, args, currentReleaseStr, current,
                   newTag, error, steps, cmds, stdout, tagsBefore,
                   manifestBefore, staged, amended>>

\* Mutant: the confirmation names the release the run started from.
ChangelogLine_Current(version) ==
    Line("Changelog for version", Trim(StringOf(currentReleaseStr)))

\* console.log(`Changelog for version ${versionTagStr} created.`)
ChangelogLine(version) == Line("Changelog for version", version)

\* index.js:348-349
AutoChangelog ==
    /\ pc = "autoChangelog"
    /\ UNCHANGED history
    /\ Await("auto-changelog")
    /\ \E ok \in BOOLEAN :
         /\ cmds' = Append(cmds, Cmd("auto-changelog", <<>>, ok))
         /\ IF ok
            THEN /\ stdout' = Append(stdout, ChangelogLine(versionTagStr))
                 /\ Proceed
                 /\ UNCHANGED error
            ELSE /\ Raise(Err("CommandError", <<>>), "")
                 /\ UNCHANGED stdout
    /\ UNCHANGED <<env, lastIndex, calls, op, args, locals,
                   tagsBefore, manifestBefore, staged, amended>>

\* ------------------------------------------------------------------------
\* Specification
\* ------------------------------------------------------------------------

Next ==
    \/ \E flag \in Flags : Main(flag)
    \/ \E release \in CallerReleases : CallCreateRelease(release)
    \/ \E verbose \in BOOLEAN : CallUpdateChangelog(verbose)
    \/ \E s \in ParseInputs : CallParseVersionTag(s)
    \/ \E tag \in TagInputs : CallTagCurrentCommit(tag)
    \/ FixManifest
    \/ Execute
    \/ IsGitCommandAvailable
    \/ GetLastTaggedCommitSHA
    \/ GetAssociatedTag
    \/ CurrentReleaseReturn
    \/ ParseVersionTag
    \/ UpdatePackageJsonVersion
    \/ GitAdd
    \/ GitCommitAmend
    \/ TagCurrentCommit
    \/ GitTag
    \/ UpdateChangelog
    \/ AutoChangelog

Spec == Init /\ [][Next]_vars


\* ------------------------------------------------------------------------
\* Properties
\* ------------------------------------------------------------------------

Issued(c) == \E i \in 1..Len(cmds) : cmds[i].cmd = c

Succeeded(c) == \E i \in 1..Len(cmds) : cmds[i].cmd = c /\ cmds[i].ok

InRelease == op = "createRelease"

VersionField(m) == Get(JSONParse(m.pairs), "version")

\* C1: every run of createRelease goes through computeNewReleaseTag, the
\* manifest write, the git tag and the changelog generator in that order,
\* each step entered only after the one before it returned successfully; the
\* tag is never created before the manifest is written, and the changelog
\* generator never runs before the tag is created.
C1_StepsInFixedOrder ==
    InRelease =>
        /\ Len(steps) <= 4
        /\ \A i \in 1..Len(steps) :
             steps[i].step = <<"computeNewReleaseTag", "updatePackageJsonVersion",
                               "tagCurrentCommit", "updateChangelog">>[i]
        /\ \A i \in 1..(Len(steps) - 1) : steps[i].st = "ok"
        /\ \A j \in 1..Len(cmds) :
             /\ cmds[j].cmd = "writeFileSync" => newTag # <<>>
             /\ cmds[j].cmd = "git tag" =>
                  \E i \in 1..(j - 1) : cmds[i].cmd = "writeFileSync" /\ cmds[i].ok
             /\ cmds[j].cmd = "auto-changelog" =>
                  \E i \in 1..(j - 1) : cmds[i].cmd = "git tag" /\ cmds[i].ok

C1_Witness ==
    /\ InRelease
    /\ pc = "done"
    /\ Len(steps) = 4
    /\ Succeeded("auto-changelog")

\* C2: when a step of createRelease fails, no later step is started and the
\* call fails with one error that createRelease wrapped with the release
\* kind; when the manifest cannot be read, no git tag command is issued.
C2_FailureAborts ==
    InRelease =>
        /\ \A i \in 1..Len(steps) :
             steps[i].st = "failed" => i = Len(steps) /\ pc = "failed"
        /\ \A i \in 1..Len(cmds) :
             /\ (~cmds[i].ok /\ cmds[i].cmd # "git rev-list") => i = Len(cmds)
             /\ (~cmds[i].ok /\ cmds[i].cmd \notin {"git rev-list", "git describe"})
                   => pc = "failed"
        /\ pc = "failed" =>
             /\ steps[Len(steps)].st = "failed"
             /\ error.name # ""
             /\ error.wraps # <<>>
             /\ error.wraps[Len(error.wraps)] =
                   [by |-> "createRelease", arg |-> args.action.release]
             /\ Cardinality({i \in 1..Len(error.wraps) :
                               error.wraps[i].by = "createRelease"}) = 1
        /\ error.name \in {"ENOENT", "SyntaxError"} => ~Issued("git tag")
        /\ (Issued("readFileSync") /\ ~Issued("writeFileSync")) => ~Issued("git tag")

C2_Witness ==
    /\ InRelease
    /\ pc = "failed"
    /\ error.name = "ENOENT"
    /\ args.action.release = "minor"

\* C3: the tag computed for a parsed current version v is
\* prefix (major+1).0.0 for major, prefix major.(minor+1).0 for minor and
\* prefix major.minor.(patch+1) for patch: read back, the prefix and the
\* components above the bumped one are those of v and the ones below are 0.
C3_IncrementLaw ==
    (InRelease /\ newTag # <<>>) =>
        LET r == args.action.release
            d == current.description
            m == SemverExec(newTag, 0)
            v == parseVersionTag(m)
        IN  /\ r \in {"major", "minor", "patch"}
            /\ r = "major" =>
                 /\ newTag = d \o NumToString(current.major + 1) \o <<".", "0", ".", "0">>
                 /\ v.major = current.major + 1 /\ v.minor = 0 /\ v.patch = 0
            /\ r = "minor" =>
                 /\ newTag = d \o NumToString(current.major) \o <<".">>
                               \o NumToString(current.minor + 1) \o <<".", "0">>
                 /\ v.major = current.major /\ v.minor = current.minor + 1 /\ v.patch = 0
            /\ r = "patch" =>
                 /\ newTag = d \o NumToString(current.major) \o <<".">>
                               \o NumToString(current.minor) \o <<".">>
                               \o NumToString(current.patch + 1)
                 /\ v.major = current.major /\ v.minor = current.minor
                 /\ v.patch = current.patch + 1
            /\ m.ok /\ m.index = 0 /\ m.lastIndex = Len(newTag)
            /\ v.description = d

C3_Witness ==
    /\ InRelease
    /\ args.action.release = "minor"
    /\ current = [description |-> <<"v">>, major |-> 1, minor |-> 4, patch |-> 2]
    /\ newTag = <<"v", "1", ".", "5", ".", "0">>

\* C4: round trip: parseVersionTag applied to p a.b.c, for a prefix p of
\* letters and non-negative integers a, b, c, returns
\* {description: p, major: a, minor: b, patch: c}.
C4_RoundTrip ==
    \A p \in SamplePrefixes, a \in SampleNumbers, b \in SampleNumbers,
       c \in SampleNumbers :
        ( /\ op = "parseVersionTag"
          /\ pc \in {"done", "failed"}
          /\ currentReleaseStr.str = Format(p, a, b, c) )
        => /\ pc = "done"
           /\ current = [description |-> p, major |-> a, minor |-> b, patch |-> c]

C6_OneVersionEverywhere ==
    (InRelease /\ pc = "done") =>
        LET r        == args.action.release
            d        == current.description
            expected == CASE r = "major" -> Format(d, current.major + 1, 0, 0)
                          [] r = "minor" -> Format(d, current.major, current.minor + 1, 0)
                          [] r = "patch" -> Format(d, current.major, current.minor,
                                                   current.patch + 1)
                          [] OTHER       -> <<>>
        IN  /\ manifest.state = "object"
            /\ Len(tags) = Len(tagsBefore) + 1
            /\ stdout # <<>>
            /\ stdout[Len(stdout)].text = "Changelog for version"
            /\ VersionField(manifest) = expected
            /\ tags[Len(tags)] = expected
            /\ stdout[Len(stdout)].arg = expected
            /\ args.cli =>
                 current = parseVersionTag(SemverExec(StringOf(currentReleaseStr), 0))
            /\ ( /\ currentReleaseStr = [isNull |-> FALSE,
                                          str |-> <<"v", "1", ".", "4", ".", "2", "\n">>]
                 /\ r = "minor" )
               => tags[Len(tags)] = <<"v", "1", ".", "5", ".", "0">>

C6_Witness ==
    /\ InRelease
    /\ pc = "done"
    /\ args.action.release = "minor"
    /\ tagsBefore = << <<"v", "1", ".", "4", ".", "2">> >>
    /\ tags[Len(tags)] = <<"v", "1", ".", "5", ".", "0">>
    /\ VersionField(manifest) = <<"v", "1", ".", "5", ".", "0">>
    /\ stdout[Len(stdout)].arg = <<"v", "1", ".", "5", ".", "0">>

\* C7: createRelease undoes nothing: once the manifest is rewritten its
\* version field stays the new version, and a created tag stays; a run that
\* fails after the rewrite and before the tag ends with the manifest at the
\* new version and no new tag.
C7_NoRollback ==
    InRelease =>
        /\ Succeeded("writeFileSync") =>
             manifest.state = "object" /\ VersionField(manifest) = newTag
        /\ Succeeded("git tag") => tags = Append(tagsBefore, newTag)
        /\ (pc = "failed" /\ Succeeded("writeFileSync") /\ ~Succeeded("git tag")) =>
             /\ tags = tagsBefore
             /\ newTag # <<>>
             /\ VersionField(manifest) = newTag

C7_Witness ==
    /\ InRelease
    /\ pc = "failed"
    /\ Succeeded("writeFileSync")
    /\ ~Issued("git tag")
    /\ tags = tagsBefore
    /\ manifestBefore.state = "object"
    /\ VersionField(manifestBefore) # newTag
    /\ VersionField(manifest) = newTag

\* Some substring of s is digits '.' digits '.' digits.
HasThreeDottedGroups(s) ==
    \E i \in 0..Len(s) : \E a \in 1..Run(s, i, Digits) :
        /\ CharAt(s, i + a) = "."
        /\ \E b \in 1..Run(s, i + a + 1, Digits) :
             /\ CharAt(s, i + a + 1 + b) = "."
             /\ CharAt(s, i + a + 2 + b) \in Digits

\* C8: parseVersionTag fails, with an error naming its input, on every input
\* that lacks three dot-separated digit groups.
C8_RejectsWithoutThreeGroups ==
    ( /\ op = "parseVersionTag"
      /\ pc \in {"done", "failed"}
      /\ ~HasThreeDottedGroups(currentReleaseStr.str) )
    => /\ pc = "failed"
       /\ error.name = "ParseError"
       /\ error.input = currentReleaseStr.str

\* C9: rewriting a manifest that parses changes its version field only: the
\* keys are the old ones and version, every other key has its old value, and
\* version is the new tag.
C9_OnlyVersionChanges ==
    (InRelease /\ Issued("writeFileSync")) =>
        LET before == JSONParse(manifestBefore.pairs)
            after  == JSONParse(manifest.pairs)
        IN  /\ manifestBefore.state = "object"
            /\ manifest.state = "object"
            /\ Keys(after) = Keys(before) \cup {"version"}
            /\ \A key \in Keys(before) \ {"version"} :
                 Get(after, key) = Get(before, key)
            /\ Get(after, "version") = newTag

C9_Witness ==
    /\ InRelease
    /\ Issued("writeFileSync")
    /\ Keys(JSONParse(manifestBefore.pairs)) = {"name", "version", "license"}
    /\ VersionField(manifestBefore) # newTag
    /\ VersionField(manifest) = newTag
    /\ Get(JSONParse(manifest.pairs), "name") = <<"p", "k", "g">>

\* C10: the command line run with --current does not fail at dispatch: it
\* runs the current-release action, which prints the version, creates no
\* tag and does not write the manifest.
C10_CurrentIsDispatched ==
    (args.cli /\ ~args.action.isObject /\ args.action.str = "currentRelease") =>
        /\ pc # "crashed"
        /\ error.name # "TypeError"
        /\ Idle => \E i \in 1..Len(stdout) : stdout[i].text = "Current release is"
        /\ tags = tagsBefore
        /\ manifest = manifestBefore

\* ------------------------------------------------------------------------
\* C11..C20
\* ------------------------------------------------------------------------

\* Commands that only read the repository.
ReadOnlyQueries == {"git --version", "git rev-list", "git describe"}

\* C11: the changelog-only action (updateChangelog entered without a version)
\* never issues the git tag command and never writes the manifest: the only
\* commands it runs are the read-only git queries and the changelog
\* generator, and the tags, the manifest file, the index and HEAD are as they
\* were when it began.
C11_ChangelogOnlyFrame ==
    op = "updateChangelog" =>
        /\ \A i \in 1..Len(cmds) :
              cmds[i].cmd \in ReadOnlyQueries \cup {"auto-changelog"}
        /\ ~Issued("git tag")
        /\ ~Issued("writeFileSync")
        /\ tags = tagsBefore
        /\ manifest = manifestBefore
        /\ ~staged
        /\ ~amended

\* A changelog-only call that ran the generator to the end, on a manifest
\* that could have been written.
C11_Witness ==
    /\ op = "updateChangelog"
    /\ pc = "done"
    /\ Succeeded("auto-changelog")
    /\ manifest.state = "object"
    /\ tags # <<>>

\* C12: when the git availability check fails, createRelease and the
\* changelog-only action fail with the environment error at once: the failed
\* check is the only command of the call (it is not retried and nothing is
\* run after it), nothing is printed, and the tags, the manifest, the index
\* and HEAD are untouched.
C12_GitUnavailableFailsFirst ==
    ( /\ op \in {"createRelease", "updateChangelog"}
      /\ \E i \in 1..Len(cmds) : cmds[i].cmd = "git --version" /\ ~cmds[i].ok )
    =>
        /\ pc = "failed"
        /\ error.name = "GitUnavailable"
        /\ cmds = << Cmd("git --version", <<>>, FALSE) >>
        /\ stdout = <<>>
        /\ tags = tagsBefore
        /\ manifest = manifestBefore
        /\ ~staged
        /\ ~amended

\* A release stopped by the availability check, with a manifest and a tag it
\* could have changed.
C12_Witness ==
    /\ op = "createRelease"
    /\ pc = "failed"
    /\ error.name = "GitUnavailable"
    /\ manifest.state = "object"
    /\ tags # <<>>

\* C13: a command line without an action flag prints the usage help and does
\* nothing else: no command or file operation is issued, nothing fails, and
\* the tags, the manifest, the index and HEAD are untouched.
C13_NoFlagPrintsHelp ==
    (args.cli /\ args.action = NoAction) =>
        /\ op = "print_help"
        /\ pc = "help"
        /\ stdout = PrintHelp
        /\ error = NoError
        /\ cmds = <<>>
        /\ tags = tagsBefore
        /\ manifest = manifestBefore
        /\ ~staged
        /\ ~amended

\* The program was run without a flag in a repository it could have changed.
C13_Witness ==
    /\ args.cli
    /\ args.action = NoAction
    /\ pc = "help"
    /\ manifest.state = "object"
    /\ tags # <<>>

\* The reading of s as letters* digits+ "." digits+ "." digits+ from its
\* first character on, each run taken whole: whether s begins that way, and
\* the prefix and the three numbers if it does.
LeadingTriple(s) ==
    LET l  == Run(s, 0, Letters)
        a  == Run(s, l, Digits)
        p2 == l + a + 1
        b  == Run(s, p2, Digits)
        p3 == p2 + b + 1
        c  == Run(s, p3, Digits)
    IN  [ok     |-> /\ a >= 1 /\ CharAt(s, l + a) = "."
                    /\ b >= 1 /\ CharAt(s, p2 + b) = "."
                    /\ c >= 1,
         prefix |-> Slice(s, 0, l),
         major  |-> Number(Slice(s, l, l + a)),
         minor  |-> Number(Slice(s, p2, p2 + b)),
         patch  |-> Number(Slice(s, p3, p3 + c)),
         len    |-> p3 + c]

\* A call of the exported parseVersionTag has returned or thrown.
ParseReturned == op = "parseVersionTag" /\ pc \in {"done", "failed"}

\* C14: parseVersionTag succeeds only on strings that begin with letters*
\* digits+ "." digits+ "." digits+; a string that does not begin that way,
\* whatever follows, fails with a parse error.
C14_SucceedsOnlyFromStart ==
    (ParseReturned /\ ~LeadingTriple(currentReleaseStr.str).ok) =>
        /\ pc = "failed"
        /\ error.name = "ParseError"

\* C15: for a string that begins with letters* digits+ "." digits+ "."
\* digits+, followed by anything, parseVersionTag returns the leading letters
\* as the prefix and the numeric values of the three digit groups; what
\* follows the triple does not change the result.
C15_LeadingTripleParsed ==
    (ParseReturned /\ LeadingTriple(currentReleaseStr.str).ok) =>
        LET t == LeadingTriple(currentReleaseStr.str)
        IN  /\ pc = "done"
            /\ current = [description |-> t.prefix, major |-> t.major,
                          minor |-> t.minor, patch |-> t.patch]

\* s is, from its first character to its last, <letters><integer>.<integer>.<integer>.
EntirelyOfForm(s) == LeadingTriple(s).ok /\ LeadingTriple(s).len = Len(s)

\* C16: tagCurrentCommit issues the git tag command only for a string that
\* is entirely of the form <letters><integer>.<integer>.<integer>; called
\* with any other string it fails with an error naming that string and
\* issues no command.
C16_TagsOnlyWholeForm ==
    /\ \A i \in 1..Len(cmds) :
          cmds[i].cmd = "git tag" => EntirelyOfForm(cmds[i].arg)
    /\ ( /\ op = "tagCurrentCommit"
         /\ pc \in {"gitTag", "done", "failed"}
         /\ ~EntirelyOfForm(currentReleaseStr.str) )
       =>
          /\ pc = "failed"
          /\ error = Err("ValidationError", currentReleaseStr.str)
          /\ cmds = <<>>

\* C17: every tag computeNewReleaseTag produces is, as a whole,
\* <prefix><major>.<minor>.<patch> with the parsed prefix, which is made of
\* letters only; so the format check of tagCurrentCommit passes in every
\* createRelease and no release fails with the validation error.
C17_ComputedTagWellFormed ==
    InRelease =>
        /\ newTag # <<>> =>
             /\ EntirelyOfForm(newTag)
             /\ LeadingTriple(newTag).prefix = current.description
             /\ \A i \in 1..Len(current.description) :
                   current.description[i] \in Letters
             /\ MatchesPattern(newTag)
        /\ error.name # "ValidationError"
        /\ pc \in {"gitTag", "updateChangelog", "autoChangelog", "done"} =>
             newTag # <<>>

\* A release whose tag, computed from an existing prefixed tag, passed the
\* format check and was created.
C17_Witness ==
    /\ InRelease
    /\ tagsBefore # <<>>
    /\ current.description # <<>>
    /\ Succeeded("git tag")

\* How many times command c was issued in the call.
RECURSIVE CountIn(_, _)
CountIn(log, c) ==
    IF log = <<>> THEN 0
    ELSE (IF log[Len(log)].cmd = c THEN 1 ELSE 0)
         + CountIn(SubSeq(log, 1, Len(log) - 1), c)

\* C18 as stated: a release uses git only to check that it is usable, to
\* query the most recent tag and to create one tag; it stages nothing and
\* leaves HEAD the commit it was.
C18_OnlyThreeGitCapabilities ==
    InRelease =>
        /\ \A i \in 1..Len(cmds) :
              cmds[i].cmd \in ReadOnlyQueries
                              \cup {"git tag", "readFileSync", "writeFileSync",
                                    "auto-changelog"}
        /\ ~staged
        /\ ~amended

\* C18, amended: besides the availability check, the two queries and the
\* one tag, a release stages the manifest (git add) and amends the current
\* commit (git commit --amend); each of these is issued at most once, the
\* index holds the manifest exactly between the two, HEAD is rewritten
\* exactly when the amend succeeded, and the tag is created on the amended
\* commit, so every release that created its tag or ran to its end has
\* rewritten the current commit.  No other commit is created.
C18_StagesAndAmends ==
    InRelease =>
        /\ \A i \in 1..Len(cmds) :
              cmds[i].cmd \in ReadOnlyQueries
                              \cup {"git add", "git commit --amend", "git tag",
                                    "readFileSync", "writeFileSync",
                                    "auto-changelog"}
        /\ \A c \in {"git --version", "git rev-list", "git describe", "git add",
                     "git commit --amend", "git tag"} : CountIn(cmds, c) <= 1
        /\ staged <=> (Succeeded("git add") /\ ~Succeeded("git commit --amend"))
        /\ amended <=> Succeeded("git commit --amend")
        /\ Issued("git commit --amend") => Succeeded("git add")
        /\ Issued("git tag") => amended
        /\ pc = "done" => amended /\ Succeeded("git tag")

\* A release that ran to its end: the commit was amended and then tagged.
C18_Witness ==
    /\ InRelease
    /\ pc = "done"
    /\ amended
    /\ Succeeded("git add")
    /\ Succeeded("git tag")

\* C19: in createRelease and in the changelog-only action at most one
\* external command is in flight; while one is, the call is suspended at the
\* statement that started it, so the next command is started only after it
\* has completed, and none is left running when the call ends.  The
\* confirmation line is printed only when the changelog generator, the last
\* command of the call, has completed successfully.
C19_OneCommandAtATime ==
    op \in {"createRelease", "updateChangelog"} =>
        /\ Len(running) <= 1
        /\ running # <<>> =>
             /\ pc \in CommandStatements
             /\ running = << CommandAt(pc) >>
        /\ Idle => running = <<>>
        /\ \A i \in 1..Len(stdout) :
              stdout[i].text = "Changelog for version" =>
                 /\ running = <<>>
                 /\ cmds # <<>>
                 /\ cmds[Len(cmds)] = Cmd("auto-changelog", <<>>, TRUE)
                 /\ i = Len(stdout)

\* A release with the git tag command in flight, started after the amend
\* had completed.
C19_Witness ==
    /\ InRelease
    /\ running = << "git tag" >>
    /\ cmds # <<>>
    /\ cmds[Len(cmds)] = Cmd("git commit --amend", <<>>, TRUE)

C21_DependsOnlyOnArgument ==
    ParseReturned =>
        LET first == SemverExec(currentReleaseStr.str, 0)
        IN  /\ pc = "done" <=> first.ok
            /\ pc = "done" => current = parseVersionTag(first)
            /\ pc = "failed" => error = Err("ParseError", currentReleaseStr.str)

\* The call is a createRelease that follows, in the same process and on the
\* same tags, a createRelease that failed reading the manifest, and the
\* manifest has been repaired since.
RetryAfterManifestFailure ==
    /\ InRelease
    /\ ~args.cli
    /\ previous.op = "createRelease"
    /\ previous.error \in {"ENOENT", "SyntaxError"}
    /\ manifestBefore.state = "object"
    /\ args.action.release \in RELEASE_TYPES

\* The tag a fresh process computes from the string currentRelease resolved.
FreshTag ==
    newVersion(parseVersionTag(SemverExec(StringOf(currentReleaseStr), 0)),
               args.action.release)

\* C22: a createRelease called again after a createRelease that failed at
\* the manifest step, with the manifest repaired and the same latest tag,
\* behaves as in a fresh process: as long as no command of it fails it does
\* not fail, and the tag it computes is the one a fresh process computes.
C22_RetrySucceeds ==
    (RetryAfterManifestFailure /\ \A i \in 1..Len(cmds) : cmds[i].ok) =>
        /\ pc # "failed"
        /\ pc \in {"updatePackageJsonVersion", "gitAdd", "gitCommitAmend",
                   "tagCurrentCommit", "gitTag", "updateChangelog",
                   "autoChangelog", "done"}
             => newTag = FreshTag

\* C23: in every state of a createRelease call, if the call has created its
\* tag then the manifest parses and its version field is that tag's name: a
\* tag created by a release never exists beside a manifest that still holds
\* another version.
C23_TagImpliesManifestVersion ==
    (InRelease /\ Len(tags) > Len(tagsBefore)) =>
        /\ Len(tags) = Len(tagsBefore) + 1
        /\ manifest.state = "object"
        /\ VersionField(manifest) = tags[Len(tags)]
        /\ \E i \in 1..Len(cmds) :
              /\ cmds[i] = Cmd("writeFileSync", tags[Len(tags)], TRUE)
              /\ \E j \in (i + 1)..Len(cmds) : cmds[j].cmd = "git tag"

\* A release that failed after creating its tag, on a manifest that held
\* another version before.
C23_Witness ==
    /\ InRelease
    /\ pc = "failed"
    /\ Len(tags) > Len(tagsBefore)
    /\ manifestBefore.state = "object"
    /\ VersionKey \in Keys(JSONParse(manifestBefore.pairs))
    /\ VersionField(manifestBefore) # tags[Len(tags)]

\* The (major, minor, patch) of a tag that is entirely of the tag form.
TripleOf(tag) ==
    << LeadingTriple(tag).major, LeadingTriple(tag).minor, LeadingTriple(tag).patch >>

ZeroTriple == <<0, 0, 0>>

\* The triple after a release of kind r.
Bump(t, r) ==
    CASE r = "major" -> << t[1] + 1, 0, 0 >>
      [] r = "minor" -> << t[1], t[2] + 1, 0 >>
      [] r = "patch" -> << t[1], t[2], t[3] + 1 >>

\* Lexicographic order on triples.
LexLess(s, t) ==
    \/ s[1] < t[1]
    \/ s[1] = t[1] /\ s[2] < t[2]
    \/ s[1] = t[1] /\ s[2] = t[2] /\ s[3] < t[3]

\* C24: in a repository that had no tags and in which every tag was created
\* by a createRelease that resolved the most recently created tag, the tags
\* are well formed and pairwise distinct, the first is an increment of 0.0.0
\* and each later one an increment (major, minor or patch) of the one created
\* just before it with the same prefix, and their triples increase strictly
\* in lexicographic order; and no release computes a tag equal to the
\* current release it resolved.
C24_ReleaseChain ==
    /\ releasesOnly =>
         /\ \A i \in 1..Len(tags) : EntirelyOfForm(tags[i])
         /\ \A i \in 1..Len(tags) : \A j \in 1..Len(tags) :
               i # j => tags[i] # tags[j]
         /\ tags # <<>> =>
               \E r \in RELEASE_TYPES : TripleOf(tags[1]) = Bump(ZeroTriple, r)
         /\ \A i \in 1..(Len(tags) - 1) :
               /\ \E r \in RELEASE_TYPES :
                     TripleOf(tags[i + 1]) = Bump(TripleOf(tags[i]), r)
               /\ LeadingTriple(tags[i + 1]).prefix = LeadingTriple(tags[i]).prefix
               /\ LexLess(TripleOf(tags[i]), TripleOf(tags[i + 1]))
    /\ (InRelease /\ newTag # <<>>) =>
         newTag # Trim(StringOf(currentReleaseStr))

\* Three releases of different kinds, one after the other from an untagged
\* repository, the last one just completed.
C24_Witness ==
    /\ releasesOnly
    /\ InRelease
    /\ pc = "done"
    /\ Len(tags) = 3
    /\ tagsBefore = << <<"0", ".", "0", ".", "1">>, <<"0", ".", "1", ".", "0">> >>
    /\ args.action.release = "patch"
    /\ tags[3] = <<"0", ".", "1", ".", "1">>

\* C25: when `git describe` fails and the current tag resolves to null, the
\* changelog-only action still runs the changelog generator and ends
\* without an error of its own: it can fail only because the generator
\* failed.
C25_NullTagTolerated ==
    ( /\ op = "updateChangelog"
      /\ currentReleaseStr.isNull
      /\ pc \in {"done", "failed"} )
    =>
        /\ Issued("auto-changelog")
        /\ pc = "failed" => error.name = "CommandError"

====
